---- MODULE Spec2Model ----
(***************************************************************************)
(* Model of hiero_sdk_python/consensus/topic_message.py: reassembly of a   *)
(* topic message from ConsensusTopicResponse chunk records.                *)
(*                                                                         *)
(* A ConsensusTopicResponse is a record whose fields carry the names of    *)
(* the protobuf message (consensusTimestamp, message, runningHash,         *)
(* sequenceNumber, chunkInfo).  A sub-message carries a presence bit       *)
(* (HasField) and reads as its default values when it is absent.           *)
(* bytes are sequences of integers, a datetime is a number of              *)
(* microseconds since the epoch, Optional[str] is a set of at most one     *)
(* string.                                                                 *)
(***************************************************************************)
EXTENDS Integers, Sequences, FiniteSets, TLC

VARIABLES response_or_responses, chunking_enabled, pc, result

vars == <<response_or_responses, chunking_enabled, pc, result>>

----------------------------------------------------------------------------
(* Bounds of the explored inputs *)

\* longest collection of responses handed to the program
MaxLen == 3
\* largest chunkInfo.number and chunkInfo.total of a response
MaxNumber == 3

----------------------------------------------------------------------------
(* Input records *)

NoTransactionID ==
    [present |-> FALSE, shardNum |-> 0, realmNum |-> 0, accountNum |-> 0,
     transactionValidStart |-> [seconds |-> 0, nanos |-> 0]]

NoChunkInfo ==
    [present |-> FALSE, number |-> 0, total |-> 0,
     initialTransactionID |-> NoTransactionID]

\* payload of the b-th record of the topic: b"AB", b"C", b"EF", b"G", ...
Payload(b) == IF b % 2 = 1 THEN <<63 + 2 * b, 64 + 2 * b>> ELSE <<63 + 2 * b>>

\* origin transaction carried by the b-th record: 0.0.4-99.200, 0.0.5-100.200, ...
TransactionIDOf(b) ==
    [present |-> TRUE, shardNum |-> 0, realmNum |-> 0, accountNum |-> 3 + b,
     transactionValidStart |-> [seconds |-> 98 + b, nanos |-> 200]]

\* the b-th ConsensusTopicResponse of the topic, with the given chunkInfo
Response(b, ci) ==
    [consensusTimestamp |-> [seconds |-> 100 * b, nanos |-> 999999000 + 300 * b],
     message            |-> Payload(b),
     runningHash        |-> <<b, 255 - b>>,
     sequenceNumber     |-> 10 + b,
     chunkInfo          |-> ci]

\* the chunkInfo values of the b-th record: absent, or any number and total,
\* with or without the origin transaction
ChunkInfos(b, totals) ==
    {NoChunkInfo} \cup
    { [present |-> TRUE, number |-> n, total |-> t, initialTransactionID |-> tx] :
        n \in 1..MaxNumber, t \in totals, tx \in {NoTransactionID, TransactionIDOf(b)} }

\* a record passed alone: any record of the topic, with every chunkInfo.total
SingleResponses ==
    UNION { { Response(b, ci) : ci \in ChunkInfos(b, 0..MaxNumber) } : b \in 1..MaxLen }

\* collections in arrival order: the i-th arrival is the i-th record of the
\* topic; its chunkInfo.number is free, so that logical order, gaps and ties
\* are independent of arrival order (chunkInfo.total is not read on this path)
RECURSIVE ResponseLists(_)
ResponseLists(n) ==
    IF n = 0 THEN {<<>>}
    ELSE { Append(s, Response(n, ci)) : s \in ResponseLists(n - 1), ci \in ChunkInfos(n, {MaxNumber}) }

----------------------------------------------------------------------------
(* Python values *)

None == {}
Some(v) == {v}

\* the outcome of a call: the exception raised ("" if none), the classmethod
\* that raised or returned, and the TopicMessage returned (None if it raised)
Raise(exc, route) == [raised |-> exc, route |-> route, returned |-> None]
Return(msg, route) == [raised |-> "", route |-> route, returned |-> Some(msg)]

AmbiguousShape == "ValueError: Cannot handle multi-chunk in a single response. Pass all chunk responses in a list."
EmptyInput == "ValueError: Empty response list provided to from_proto()."
AttributeError == "AttributeError"
IndexError == "IndexError"

\* response.HasField(name)
HasField(msg, name) == msg[name].present

----------------------------------------------------------------------------
(* topic_message.py *)

\* datetime.utcfromtimestamp(seconds + nanos / 1e9): microsecond resolution,
\* rounded to the nearest microsecond, a full microsecond count carrying into
\* the seconds.  The explored timestamps are small enough for the float sum
\* to be exact to the microsecond and none lies half-way between two
\* microseconds.
_to_datetime(ts_proto) ==
    ts_proto.seconds * 1000000 + (ts_proto.nanos + 500) \div 1000

TopicMessageChunk(response) ==
    [consensus_timestamp |-> _to_datetime(response.consensusTimestamp),
     content_size        |-> Len(response.message),
     running_hash        |-> response.runningHash,
     sequence_number     |-> response.sequenceNumber]

TopicMessage(consensus_timestamp, contents, running_hash, sequence_number, chunks, transaction_id) ==
    [consensus_timestamp |-> consensus_timestamp,
     contents            |-> contents,
     running_hash        |-> running_hash,
     sequence_number     |-> sequence_number,
     chunks              |-> chunks,
     transaction_id      |-> transaction_id]

\* f"{shardNum}.{realmNum}.{accountNum}-{seconds}.{nanos}"
FormatTransactionID(tx_id) ==
    ToString(tx_id.shardNum) \o "." \o ToString(tx_id.realmNum) \o "."
        \o ToString(tx_id.accountNum) \o "-"
        \o ToString(tx_id.transactionValidStart.seconds) \o "."
        \o ToString(tx_id.transactionValidStart.nanos)

of_single(response) ==
    LET chunk == TopicMessageChunk(response)
        transaction_id ==
            IF HasField(response, "chunkInfo") /\ HasField(response.chunkInfo, "initialTransactionID")
            THEN Some(FormatTransactionID(response.chunkInfo.initialTransactionID))
            ELSE None
    IN  \* line 55 reads response.sequence_number, which the message type does not have
        IF "sequence_number" \notin DOMAIN response
        THEN Raise(AttributeError, "of_single")
        ELSE Return(TopicMessage(chunk.consensus_timestamp, response.message,
                                 response.runningHash, response["sequence_number"],
                                 <<chunk>>, transaction_id),
                    "of_single")

\* the sort key of of_many
ChunkNumber(r) == r.chunkInfo.number

\* Insert as an unstable sort would: r goes before the records of equal index
RECURSIVE InsertBeforeEqual(_, _)
InsertBeforeEqual(s, r) ==
    IF s = <<>> THEN <<r>>
    ELSE IF ChunkNumber(s[Len(s)]) < ChunkNumber(r)
         THEN Append(s, r)
         ELSE Append(InsertBeforeEqual(SubSeq(s, 1, Len(s) - 1), r), s[Len(s)])

\* sorted(responses, key=...): stable, ascending
RECURSIVE Insert(_, _)
Insert(s, r) ==
    IF s = <<>> THEN <<r>>
    ELSE IF ChunkNumber(s[Len(s)]) <= ChunkNumber(r)
         THEN Append(s, r)
         ELSE Append(Insert(SubSeq(s, 1, Len(s) - 1), r), s[Len(s)])

\* sorted left out: the responses are taken in arrival order
sortedAsArrived(responses) == responses

RECURSIVE sorted(_)
sorted(responses) ==
    IF responses = <<>> THEN <<>>
    ELSE Insert(sorted(SubSeq(responses, 1, Len(responses) - 1)), responses[Len(responses)])

\* first loop of of_many (lines 85-97) over sorted_responses[1..k]
RECURSIVE ChunksOf(_, _)
ChunksOf(sorted_responses, k) ==
    IF k = 0 THEN <<>>
    ELSE Append(ChunksOf(sorted_responses, k - 1), TopicMessageChunk(sorted_responses[k]))

RECURSIVE TotalSize(_, _)
TotalSize(sorted_responses, k) ==
    IF k = 0 THEN 0
    ELSE TotalSize(sorted_responses, k - 1) + Len(sorted_responses[k].message)

\* TransactionIDUpTo without the `transaction_id is None` test: the last
\* carrier wins
RECURSIVE TransactionIDLastWins(_, _)
TransactionIDLastWins(sorted_responses, k) ==
    IF k = 0 THEN None
    ELSE LET transaction_id == TransactionIDLastWins(sorted_responses, k - 1)
             r == sorted_responses[k]
         IN  IF HasField(r, "chunkInfo") /\ HasField(r.chunkInfo, "initialTransactionID")
             THEN Some(FormatTransactionID(r.chunkInfo.initialTransactionID))
             ELSE transaction_id

RECURSIVE TransactionIDUpTo(_, _)
TransactionIDUpTo(sorted_responses, k) ==
    IF k = 0 THEN None
    ELSE LET transaction_id == TransactionIDUpTo(sorted_responses, k - 1)
             r == sorted_responses[k]
         IN  IF transaction_id = None
                /\ HasField(r, "chunkInfo")
                /\ HasField(r.chunkInfo, "initialTransactionID")
             THEN Some(FormatTransactionID(r.chunkInfo.initialTransactionID))
             ELSE transaction_id

\* bytearray(total_size)
bytearray(total_size) == [i \in 1..total_size |-> 0]

\* contents[offset:end] = message
SliceAssign(contents, offset, end, message) ==
    SubSeq(contents, 1, IF offset < Len(contents) THEN offset ELSE Len(contents))
        \o message \o SubSeq(contents, end + 1, Len(contents))

\* CopyUpTo without `offset = end`: every payload is written at offset 0
RECURSIVE CopyAtZero(_, _, _)
CopyAtZero(sorted_responses, k, total_size) ==
    IF k = 0 THEN [contents |-> bytearray(total_size), offset |-> 0]
    ELSE LET before == CopyAtZero(sorted_responses, k - 1, total_size)
             r == sorted_responses[k]
         IN  [contents |-> SliceAssign(before.contents, 0, Len(r.message), r.message),
              offset   |-> 0]

\* second loop of of_many (lines 99-104): the buffer and the offset after
\* sorted_responses[1..k] have been copied
RECURSIVE CopyUpTo(_, _, _)
CopyUpTo(sorted_responses, k, total_size) ==
    IF k = 0 THEN [contents |-> bytearray(total_size), offset |-> 0]
    ELSE LET before == CopyUpTo(sorted_responses, k - 1, total_size)
             r == sorted_responses[k]
             end == before.offset + Len(r.message)
         IN  [contents |-> SliceAssign(before.contents, before.offset, end, r.message),
              offset   |-> end]

\* sorted_responses[0] taken for the last record
FirstOf(sorted_responses) == sorted_responses[1]

\* sorted_responses[-1]
LastOf(sorted_responses) == sorted_responses[Len(sorted_responses)]

of_many(responses) ==
    LET sorted_responses == sorted(responses)
        n == Len(sorted_responses)
        chunks == ChunksOf(sorted_responses, n)
        total_size == TotalSize(sorted_responses, n)
        transaction_id == TransactionIDUpTo(sorted_responses, n)
        contents == CopyUpTo(sorted_responses, n, total_size).contents
        last_r == LastOf(sorted_responses)
    IN  IF n = 0
        THEN Raise(IndexError, "of_many")
        ELSE Return(TopicMessage(_to_datetime(last_r.consensusTimestamp), contents,
                                 last_r.runningHash, last_r.sequenceNumber,
                                 chunks, transaction_id),
                    "of_many")

\* from_proto rejecting a declared multi-chunk record whatever the flag
from_protoIgnoringFlag(arg, chunking) ==
    IF arg.single
    THEN LET response == arg.items[1]
         IN  IF HasField(response, "chunkInfo") /\ response.chunkInfo.total > 1
             THEN Raise(AmbiguousShape, "from_proto")
             ELSE of_single(response)
    ELSE IF arg.items = <<>>
         THEN Raise(EmptyInput, "from_proto")
         ELSE IF ~chunking /\ Len(arg.items) = 1
              THEN of_single(arg.items[1])
              ELSE of_many(arg.items)

\* from_proto without the test for an empty list
from_protoNoEmptyTest(arg, chunking) ==
    IF arg.single
    THEN LET response == arg.items[1]
         IN  IF chunking /\ HasField(response, "chunkInfo") /\ response.chunkInfo.total > 1
             THEN Raise(AmbiguousShape, "from_proto")
             ELSE of_single(response)
    ELSE IF ~chunking /\ Len(arg.items) = 1
         THEN of_single(arg.items[1])
         ELSE of_many(arg.items)

\* from_proto; isinstance(response_or_responses, ConsensusTopicResponse) is the
\* tag `single` of the argument, whose `items` hold the record or the list
from_proto(arg, chunking) ==
    IF arg.single
    THEN LET response == arg.items[1]
         IN  IF chunking /\ HasField(response, "chunkInfo") /\ response.chunkInfo.total > 1
             THEN Raise(AmbiguousShape, "from_proto")
             ELSE of_single(response)
    ELSE IF arg.items = <<>>
         THEN Raise(EmptyInput, "from_proto")
         ELSE IF ~chunking /\ Len(arg.items) = 1
              THEN of_single(arg.items[1])
              ELSE of_many(arg.items)

----------------------------------------------------------------------------
(* The callers: one call of a classmethod on an already decoded input *)

Inputs ==
    { [single |-> TRUE, items |-> <<r>>] : r \in SingleResponses }
    \cup { [single |-> FALSE, items |-> s] : s \in UNION { ResponseLists(n) : n \in 0..MaxLen } }

NoResult == Raise("", "")

Init ==
    /\ response_or_responses \in Inputs
    /\ chunking_enabled \in BOOLEAN
    /\ pc = "start"
    /\ result = NoResult

\* TopicMessage.from_proto(response_or_responses, chunking_enabled)
CallFromProto ==
    /\ pc = "start"
    /\ result' = from_proto(response_or_responses, chunking_enabled)
    /\ pc' = "from_proto"
    /\ UNCHANGED <<response_or_responses, chunking_enabled>>

\* TopicMessage.of_single(response)
CallOfSingle ==
    /\ pc = "start"
    /\ response_or_responses.single
    /\ result' = of_single(response_or_responses.items[1])
    /\ pc' = "of_single"
    /\ UNCHANGED <<response_or_responses, chunking_enabled>>

\* TopicMessage.of_many(responses)
CallOfMany ==
    /\ pc = "start"
    /\ ~response_or_responses.single
    /\ result' = of_many(response_or_responses.items)
    /\ pc' = "of_many"
    /\ UNCHANGED <<response_or_responses, chunking_enabled>>

Next == CallFromProto \/ CallOfSingle \/ CallOfMany

Spec == Init /\ [][Next]_vars

----------------------------------------------------------------------------
(* Vocabulary of the properties *)

\* the argument of the call and, once it returned, the TopicMessage
items == response_or_responses.items
Returned == result.raised = "" /\ result.returned # None
Msg == CHOOSE m \in result.returned : TRUE

\* arrival orders: the bijections of 1..n, and a collection rearranged by one
Perms(n) == { p \in [1..n -> 1..n] : \A i, j \in 1..n : p[i] = p[j] => i = j }
Permute(s, p) == [i \in 1..Len(s) |-> s[p[i]]]

\* position indices pairwise distinct
DistinctNumbers(s) ==
    \A i, j \in 1..Len(s) : i # j => s[i].chunkInfo.number # s[j].chunkInfo.number

\* the arrival slots of s in logical order: ascending position index, equal
\* indices in arrival order
LogicalOrder(s) ==
    CHOOSE p \in Perms(Len(s)) :
        \A i, j \in 1..Len(s) :
            i < j => \/ s[p[i]].chunkInfo.number < s[p[j]].chunkInfo.number
                     \/ /\ s[p[i]].chunkInfo.number = s[p[j]].chunkInfo.number
                        /\ p[i] < p[j]

\* the payloads of s[1..k], one after the other
RECURSIVE Concatenation(_, _)
Concatenation(s, k) ==
    IF k = 0 THEN <<>> ELSE Concatenation(s, k - 1) \o s[k].message

RECURSIVE SumOfSizes(_, _)
SumOfSizes(chunks, k) ==
    IF k = 0 THEN 0 ELSE SumOfSizes(chunks, k - 1) + chunks[k].content_size

\* m (a TopicMessage or a chunk) shows the ledger metadata of record r
MetadataOf(m, r) ==
    /\ m.consensus_timestamp = r.consensusTimestamp.seconds * 1000000
                                 + (r.consensusTimestamp.nanos + 500) \div 1000
    /\ m.running_hash = r.runningHash
    /\ m.sequence_number = r.sequenceNumber

\* chunk is the chunk metadata of record r
DescribedBy(chunk, r) == MetadataOf(chunk, r) /\ chunk.content_size = Len(r.message)

\* the "shard.realm.account-seconds.nanos" descriptor of record r
Descriptor(r) ==
    LET tx == r.chunkInfo.initialTransactionID
    IN  ToString(tx.shardNum) \o "." \o ToString(tx.realmNum) \o "." \o ToString(tx.accountNum)
            \o "-" \o ToString(tx.transactionValidStart.seconds)
            \o "." \o ToString(tx.transactionValidStart.nanos)

\* the arrival slots whose record carries an initial_transaction_id
Carriers(s) ==
    { i \in 1..Len(s) : s[i].chunkInfo.present /\ s[i].chunkInfo.initialTransactionID.present }

\* a call of of_many on a non-empty collection
AssembleCalled == pc = "of_many" /\ items # <<>>

----------------------------------------------------------------------------
(* Properties *)

\* C1: order independence of of_many. For a non-empty collection with pairwise
\* distinct position indices, every rearrangement of the arrival order gives
\* the same contents, the same final metadata and the same transaction_id.
C1_OrderIndependence ==
    (AssembleCalled /\ DistinctNumbers(items)) =>
        /\ Returned
        /\ \A p \in Perms(Len(items)) :
              LET other == of_many(Permute(items, p))
              IN  /\ other.raised = ""
                  /\ \A m \in other.returned :
                        /\ m.contents = Msg.contents
                        /\ m.consensus_timestamp = Msg.consensus_timestamp
                        /\ m.running_hash = Msg.running_hash
                        /\ m.sequence_number = Msg.sequence_number
                        /\ m.transaction_id = Msg.transaction_id
                  /\ other.returned # None

\* C1 witness: three chunks arrived in the order 3, 1, 2 of their indices, two
\* of them carrying an origin transaction, have been assembled.
C1_Witness ==
    /\ AssembleCalled /\ Returned
    /\ Len(items) = 3
    /\ items[1].chunkInfo.number = 3 /\ items[2].chunkInfo.number = 1
    /\ items[3].chunkInfo.number = 2
    /\ Cardinality(Carriers(items)) = 2

\* C2: for a non-empty collection with distinct position indices, of_many
\* returns one chunk per record, in ascending order of position index, and
\* contents is the concatenation of the payloads in that order.
C2_SortedChunksAndContents ==
    (AssembleCalled /\ DistinctNumbers(items)) =>
        /\ Returned
        /\ LET s == Permute(items, LogicalOrder(items))
           IN  /\ \A i \in 1..(Len(s) - 1) : s[i].chunkInfo.number < s[i + 1].chunkInfo.number
               /\ Len(Msg.chunks) = Len(items)
               /\ \A i \in 1..Len(s) : DescribedBy(Msg.chunks[i], s[i])
               /\ Msg.contents = Concatenation(s, Len(s))

\* C2 witness: indices [2,1,3] with payloads AB, C, EF gave contents CABEF and
\* three chunks.
C2_Witness ==
    /\ AssembleCalled /\ Returned
    /\ Len(items) = 3
    /\ items[1].chunkInfo.number = 2 /\ items[2].chunkInfo.number = 1
    /\ items[3].chunkInfo.number = 3
    /\ Msg.contents = <<67, 65, 66, 69, 70>>
    /\ Len(Msg.chunks) = 3

\* C5: metadata provenance. The consensus_timestamp, running_hash and
\* sequence_number of the assembled message are those of the record with the
\* maximum position index.
C5_MetadataProvenance ==
    (AssembleCalled /\ DistinctNumbers(items)) =>
        /\ Returned
        /\ \A i \in 1..Len(items) :
              (\A j \in 1..Len(items) : items[j].chunkInfo.number <= items[i].chunkInfo.number)
              => MetadataOf(Msg, items[i])

\* C5 witness: the record with the maximum index arrived first, and the
\* message shows its sequence number, not that of the last arrival.
C5_Witness ==
    /\ AssembleCalled /\ Returned /\ DistinctNumbers(items)
    /\ Len(items) = 3
    /\ items[1].chunkInfo.number = 3
    /\ Msg.sequence_number = items[1].sequenceNumber
    /\ Msg.sequence_number # items[3].sequenceNumber

\* C6: transaction-id precedence. The transaction_id of the assembled message
\* is the formatted descriptor of the record with the lowest position index
\* among the records that carry an initial_transaction_id, and it is absent
\* exactly when no record carries one.
C6_TransactionIdPrecedence ==
    (AssembleCalled /\ DistinctNumbers(items)) =>
        /\ Returned
        /\ (Msg.transaction_id = None) <=> (Carriers(items) = {})
        /\ \A i \in Carriers(items) :
              (\A j \in Carriers(items) : items[i].chunkInfo.number <= items[j].chunkInfo.number)
              => Msg.transaction_id = {Descriptor(items[i])}

\* C6 witness: two carriers; the one with the lower index arrived second and
\* carries 0.0.5 valid from (100,200): transaction_id is "0.0.5-100.200".
C6_Witness ==
    /\ AssembleCalled /\ Returned
    /\ Len(items) = 2
    /\ Carriers(items) = {1, 2}
    /\ items[2].chunkInfo.number < items[1].chunkInfo.number
    /\ Msg.transaction_id = {"0.0.5-100.200"}

\* C8: ambiguous-shape rejection. A single record is rejected with the
\* ambiguous-shape error if and only if chunking_enabled is true and the
\* record carries chunk info whose total is greater than 1; otherwise it is
\* routed to the single-chunk path.
C8_AmbiguousShapeRejection ==
    (pc = "from_proto" /\ response_or_responses.single) =>
        LET response == items[1]
            declaredMulti == response.chunkInfo.present /\ response.chunkInfo.total > 1
        IN  /\ (result.raised = AmbiguousShape) <=> (chunking_enabled /\ declaredMulti)
            /\ (result.raised = AmbiguousShape) => (result.returned = None /\ result.route = "from_proto")
            /\ (result.raised # AmbiguousShape) => result.route = "of_single"

\* C8 witness: a lone record with chunk_info.total = 3 and chunking enabled
\* has been rejected.
C8_Witness ==
    /\ pc = "from_proto" /\ response_or_responses.single
    /\ chunking_enabled
    /\ items[1].chunkInfo.present /\ items[1].chunkInfo.total = 3
    /\ result.raised = AmbiguousShape

\* C9: empty-input rejection. An empty collection is rejected with the
\* empty-input error for both values of chunking_enabled, with no message and
\* without reaching of_single or of_many; a non-empty collection never is.
C9_EmptyInputRejection ==
    (pc = "from_proto" /\ ~response_or_responses.single) =>
        /\ (items = <<>>) =>
              (result.raised = EmptyInput /\ result.returned = None /\ result.route = "from_proto")
        /\ (items # <<>>) => result.raised # EmptyInput

\* C9 witness: an empty collection has been rejected with chunking disabled.
C9_Witness ==
    /\ pc = "from_proto" /\ ~response_or_responses.single
    /\ items = <<>> /\ ~chunking_enabled
    /\ result.raised = EmptyInput

\* C10: behaviour under ties. Whatever the position indices, of_many keeps
\* every record once: one chunk per record, contents as long as all the
\* payloads; records of equal index keep their arrival order in chunks and in
\* contents; the final metadata is that of the last arrival among the records
\* with the maximum index.
C10_TiesAreStable ==
    AssembleCalled =>
        /\ Returned
        /\ LET s == Permute(items, LogicalOrder(items))
               n == Len(items)
           IN  /\ Len(Msg.chunks) = n
               /\ Len(Msg.contents) = SumOfSizes([i \in 1..n |-> [content_size |-> Len(items[i].message)]], n)
               /\ \A i \in 1..n : DescribedBy(Msg.chunks[i], s[i])
               /\ Msg.contents = Concatenation(s, n)
               /\ \A i \in 1..n :
                     (\A j \in 1..n : \/ items[j].chunkInfo.number < items[i].chunkInfo.number
                                      \/ /\ items[j].chunkInfo.number = items[i].chunkInfo.number
                                         /\ j <= i)
                     => MetadataOf(Msg, items[i])

\* C10 witness: two records share the maximum index; the message shows the
\* metadata of the later arrival and the earlier one's payload first, and the
\* opposite arrival order gives another message.
C10_Witness ==
    /\ AssembleCalled /\ Returned
    /\ Len(items) = 3
    /\ items[1].chunkInfo.number = 2 /\ items[2].chunkInfo.number = 1
    /\ items[3].chunkInfo.number = 2
    /\ Msg.sequence_number = items[3].sequenceNumber
    /\ Msg.contents = items[2].message \o items[1].message \o items[3].message
    /\ of_many(<<items[3], items[2], items[1]>>).returned # result.returned

\* C3 as stated: of_single on a record returns the message that of_many
\* returns on the one-element collection of that record.
C3_SingleChunkEquivalence ==
    pc = "of_single" =>
        /\ Returned
        /\ result.returned = of_many(<<items[1]>>).returned

\* the calls of from_proto that take the single-chunk path
SingleChunkPath ==
    /\ pc = "from_proto"
    /\ \/ response_or_responses.single /\ result.raised # AmbiguousShape
       \/ ~response_or_responses.single /\ Len(items) = 1 /\ ~chunking_enabled

\* C4 as stated: on the single-chunk path from_proto returns a message with
\* one chunk describing the record, the record's contents and metadata, and
\* the formatted origin-transaction id if the record carries one.
C4_SingleChunkShape ==
    SingleChunkPath =>
        /\ Returned
        /\ Len(Msg.chunks) = 1
        /\ DescribedBy(Msg.chunks[1], items[1])
        /\ Msg.contents = items[1].message
        /\ MetadataOf(Msg, items[1])
        /\ Msg.transaction_id =
              (IF Carriers(items) = {} THEN None ELSE {Descriptor(items[1])})

\* C7 as stated: for every valid input (an accepted single record, a
\* non-empty collection) from_proto returns a message whose contents is as
\* long as the sum of content_size over its chunks.
C7_LengthConservation ==
    (pc = "from_proto" /\ result.raised \notin {AmbiguousShape, EmptyInput}) =>
        /\ Returned
        /\ Len(Msg.contents) = SumOfSizes(Msg.chunks, Len(Msg.chunks))

====
